---- MODULE Spec2Model ----
(***************************************************************************)
(* Model of the calendar bulk clients of this repository.                  *)
(*                                                                         *)
(*  Part I   CalendarPerformanceTester (src/demo_calendar_performance.py): *)
(*           run_performance_test drives batches of create_single_event    *)
(*           tasks through one asyncio.Semaphore.                          *)
(*  Part II  ResilientCalendarClient (src/demo_calendar_resilience.py):    *)
(*           concurrent calls of make_resilient_request on shared stats.   *)
(*                                                                         *)
(* asyncio runs one task at a time and switches tasks only at an await, so *)
(* every action below is the code between two suspension points.           *)
(***************************************************************************)
EXTENDS Integers, Sequences, FiniteSets, TLC

\* ------------------------------------------------------------------ bounds
MaxEvents == 2
MaxBatch == 2
MaxConcurrent == 5
MaxRetries == 3
MaxRetriesConcurrent == 0
MaxDemoCalls == 2
MaxBulkEvents == 11
MaxItems == 12
MaxPartBatch == 5
MaxRuns == 2
MaxPosts == 2
MaxResets == 1
MaxSeconds == 1

\* max_retries default of make_resilient_request, the ceiling the spec applies
\* to every client.
DefaultMaxRetries == 3

\* Retry-After header values a 429 response may carry.
RetryAfterHeaders == {"absent", "2", "abc"}

VARIABLES
    \* --- CalendarPerformanceTester
    event_count,      \* run_performance_test(event_count, ...)
    batch_size,       \* run_performance_test(..., batch_size)
    max_concurrent,   \* self.max_concurrent
    sem_value,        \* self.semaphore: free slots
    sem_waiters,      \* self.semaphore: FIFO of suspended acquirers
    metrics,          \* self.metrics (the integer counters)
    response_times,   \* self.response_times: samples by the attempt that gave them
    counted,          \* the increments of the counters done by the tasks so far
    clock,            \* per task: what has run since the frame's start_time was taken
    pauses,           \* inter-batch sleeps begun so far
    runs,             \* calls of run_performance_test made on the tester
    run_pc,           \* position of run_performance_test
    batch_num,        \* loop variable of run_performance_test
    pc,               \* position of each create_single_event task
    held,             \* slots held by the frames of each task
    attempts,         \* requests issued by each task
    retry_after,      \* seconds a task is sleeping on a 429
    result,           \* 'status' of the dict a task returned
    acquired,         \* semaphore acquisitions, all tasks
    released,         \* semaphore releases, all tasks
    \* --- ResilientCalendarClient
    num_calls,        \* calls the caller gathers concurrently
    max_retries,      \* make_resilient_request(..., max_retries)
    stats,            \* self.stats
    rpc,              \* position of each make_resilient_request call
    attempt,          \* loop variable of each call
    last_exception,   \* last_exception of each call
    header,           \* Retry-After header of the 429 response a call holds
    sleep_ms,         \* length of the asyncio.sleep a call is in
    first_status,     \* status the call's first attempt received
    own,              \* each call's own share of the increments of stats
    classified,       \* per call: outcome counters incremented by the current attempt
    ret               \* what each call returned

VARIABLES
    \* --- CalendarDemoClient (demo_calendar_comprehensive.py)
    demo_stats,       \* self.stats (the integer counters)
    dpc,              \* per create_event call: where the call stands
    dattempt,         \* per call: loop variable `attempt` of make_request
    dsleep,           \* per call: seconds of the asyncio.sleep in progress
    dlast,            \* per call: status of the latest attempt, or "exception"
    dret              \* per call: what create_event gave back, or the exception it raised

perfVars == <<event_count, batch_size, max_concurrent, sem_value, sem_waiters,
              metrics, response_times, counted, clock, pauses, runs, run_pc, batch_num, pc, held, attempts, retry_after,
              result, acquired, released>>

resVars == <<num_calls, max_retries, stats, rpc, attempt, last_exception,
             header, sleep_ms, first_status, own, ret,
             classified>>

VARIABLES
    \* --- PerformanceDemo.demo_bulk_event_creation
    bulk_event_count, \* event_count, the length of `events`
    bulk_run_pc,      \* where the batch loop stands
    bulk_batch_num,   \* loop variable batch_num
    bulk_pc,          \* per event: where its create_event task stands
    bulk_pauses,      \* inter-batch sleeps begun so far
    \* --- the batching arithmetic of both schedulers, on its own
    part_n,           \* len(events)
    part_B,           \* batch_size
    part_k,           \* loop variable batch_num
    part_batches,     \* the batch_events slices formed so far, in order
    part_done         \* the loop has ended

VARIABLES
    \* --- the mock backend (demo_backend.py)
    backend_stats,    \* the dict the global demo_stats is bound to
    backend_gen,      \* which dict that is: the resets done so far
    bpc,              \* per POST /v1/calendar/events request: where its handler stands
    bloaded,          \* per request: the handler is between the read and the write of a +=
    bref,             \* per request: the dict the += in progress took from the global
    bval,             \* per request: the value the += in progress read
    bstatus,          \* per request: status of the response
    bid,              \* per request: the event id of the response
    now               \* int(time.time())

demoVars == <<demo_stats, dpc, dattempt, dsleep, dlast, dret>>
bulkVars == <<bulk_event_count, bulk_run_pc, bulk_batch_num, bulk_pc,
              bulk_pauses>>
partVars == <<part_n, part_B, part_k, part_batches, part_done>>
backVars == <<backend_stats, backend_gen, bpc, bloaded, bref, bval, bstatus,
              bid, now>>
vars == <<perfVars, resVars, demoVars, bulkVars, partVars, backVars>>

\* what an action of one client leaves alone: the other clients
notPerfVars == <<resVars, demoVars, bulkVars, partVars, backVars>>
notResVars == <<perfVars, demoVars, bulkVars, partVars, backVars>>
notDemoVars == <<perfVars, resVars, bulkVars, partVars, backVars>>
notBulkVars == <<perfVars, resVars, demoVars, partVars, backVars>>
notPartVars == <<perfVars, resVars, demoVars, bulkVars, backVars>>
notBackVars == <<perfVars, resVars, demoVars, bulkVars, partVars>>

Min(a, b) == IF a < b THEN a ELSE b
Max(a, b) == IF a > b THEN a ELSE b

\* a list one longer than the largest batch: a full batch and a next one
SchedEvents == MaxBatch + 1

\* indices of the events a run may be given
Events == 0 .. (Max(MaxEvents, SchedEvents) - 1)

\* ------------------------------------------------------------ PerformanceMetrics
PerformanceMetrics ==
    [total_events |-> 0, successful_events |-> 0, failed_events |-> 0,
     rate_limited_requests |-> 0]

\* self.response_times = []: the list holds one latency per append; the model
\* keeps how many samples came from a 200, a 429, another status, and from
\* the except handler
NoSamples == [s200 |-> 0, s429 |-> 0, other |-> 0, exception |-> 0]

\* self.response_times.append(response_time) for an attempt of kind k
AppendSample(k) == response_times' = [response_times EXCEPT ![k] = @ + 1]

\* no increment done yet
NoIncrements ==
    [successful_events |-> 0, failed_events |-> 0, rate_limited_requests |-> 0]

\* an increment whose read of the counter was taken when the run reset it
IncrementFromStaleRead(t, ks) ==
    /\ metrics' = [k \in DOMAIN metrics |->
                     IF k \in ks THEN 1 ELSE metrics[k]]
    /\ counted' = [k \in DOMAIN counted |->
                     IF k \in ks THEN counted[k] + 1 ELSE counted[k]]

\* self.metrics.<k> += 1 by task t, for every k of ks: read and write with no
\* await in between; counted keeps how many increments were done
Increment(t, ks) ==
    /\ metrics' = [k \in DOMAIN metrics |->
                     IF k \in ks THEN metrics[k] + 1 ELSE metrics[k]]
    /\ counted' = [k \in DOMAIN counted |->
                     IF k \in ks THEN counted[k] + 1 ELSE counted[k]]

\* if batch_num < total_batches - 1, with a test that is always true
PauseAlways(k, total) == TRUE

\* if batch_num < total_batches - 1: a pause follows batch k
PauseFollows(k, total) == k < total - 1

\* asyncio.Semaphore(max_concurrent): the initial counter
SemaphoreInit(n) == n

\* int(response.headers.get('Retry-After', 1)): the seconds, or int() raising
\* ValueError on a value that is no integer literal
ParseRetryAfter(h) ==
    CASE h = "absent" -> [raises |-> FALSE, seconds |-> 1]
      [] h = "2"      -> [raises |-> FALSE, seconds |-> 2]
      [] OTHER        -> [raises |-> TRUE, seconds |-> 0]

\* a // b of Python for b # 0: the floor of the quotient
FloorDiv(a, b) == IF b > 0 THEN a \div b ELSE (0 - a) \div (0 - b)

\* a batch count that drops a last, partial batch
TotalBatchesFloor(n, B) == FloorDiv(n, B)

\* total_batches = (len(events) + batch_size - 1) // batch_size
TotalBatches(n, B) == FloorDiv(n + B - 1, B)
\* start_idx = batch_num * batch_size
StartIdx(k, B) == k * B
\* end_idx = min(start_idx + batch_size, len(events))
EndIdx(k, B, n) == Min(StartIdx(k, B) + B, n)
\* a slice bound i of a list of n items: a negative bound counts from the
\* end, and the result is clamped to 0 .. n
SliceBound(n, i) == IF i < 0 THEN Max(n + i, 0) ELSE Min(i, n)

\* events[a:b] of a list of n events, as the indices it holds, in order
Slice(n, a, b) ==
    LET lo == SliceBound(n, a)
        hi == SliceBound(n, b)
    IN  [i \in 1 .. (IF hi > lo THEN hi - lo ELSE 0) |-> lo + i - 1]

\* the indices a slice holds
SliceSet(n, a, b) == {Slice(n, a, b)[i] : i \in DOMAIN Slice(n, a, b)}

total_batches == TotalBatches(event_count, batch_size)
start_idx == StartIdx(batch_num, batch_size)
end_idx == EndIdx(batch_num, batch_size, event_count)
BatchEvents == SliceSet(event_count, start_idx, end_idx)

\* ---------------------------------------------------------------- semaphore
\* an admission test that looks at the queue only
SemLockedIgnoresValue == sem_waiters # <<>>

\* Semaphore.locked(): no free slot, or somebody is queued before us
SemLocked == sem_value = 0 \/ sem_waiters # <<>>

\* start_time = time.time() taken before `async with self.semaphore`: the
\* time spent queued for the slot lies after it
StartTimeBeforeSemaphore(t, queued) == IF queued THEN "waited" ELSE "network"

\* start_time = time.time() is the first statement inside `async with
\* self.semaphore`: taken once the slot is granted, queued for or not
StartTime(t, queued) == "network"

\* `async with self.semaphore` of task t: take a slot at once when the
\* semaphore is not locked, else suspend in the FIFO.  Taking the slot runs on
\* to start_time = time.time() and session.post(...), the next suspension.
EnterSemaphore(t) ==
    IF ~SemLocked
    THEN /\ sem_value' = sem_value - 1
         /\ held' = [held EXCEPT ![t] = @ + 1]
         /\ acquired' = acquired + 1
         /\ attempts' = [attempts EXCEPT ![t] = @ + 1]
         /\ pc' = [pc EXCEPT ![t] = "post"]
         /\ clock' = [clock EXCEPT ![t] = StartTime(t, FALSE)]
         /\ UNCHANGED sem_waiters
    ELSE /\ sem_waiters' = Append(sem_waiters, t)
         /\ pc' = [pc EXCEPT ![t] = "waiting"]
         /\ UNCHANGED <<sem_value, held, acquired, attempts, clock>>

\* an exit that gives back the slot of the innermost frame only
SlotsReleasedInnermostOnly(t) == IF held[t] > 0 THEN 1 ELSE 0

\* slots given back when task t leaves create_single_event: every frame of
\* the recursion exits its own `async with self.semaphore`
SlotsReleased(t) == held[t]

\* the return of task t through all its frames
Return(t, st) ==
    /\ sem_value' = sem_value + SlotsReleased(t)
    /\ released' = released + SlotsReleased(t)
    /\ held' = [held EXCEPT ![t] = 0]
    /\ pc' = [pc EXCEPT ![t] = "done"]
    /\ result' = [result EXCEPT ![t] = st]
    /\ clock' = [clock EXCEPT ![t] = "idle"]

\* ------------------------------------------------------------------- Init
\* CalendarPerformanceTester(max_concurrent=c) and the entry of
\* run_performance_test(n, B), up to the batch loop
PerfStart(n, B, c) ==
    /\ event_count = n
    /\ batch_size = B
    /\ max_concurrent = c
    /\ sem_value = SemaphoreInit(max_concurrent)
    /\ sem_waiters = <<>>
    /\ metrics = [PerformanceMetrics EXCEPT !.total_events = event_count]
    /\ response_times = NoSamples
    /\ counted = NoIncrements
    /\ runs = 1
    /\ clock = [t \in Events |-> "idle"]
    /\ pauses = 0
    /\ run_pc = "loop"
    /\ batch_num = 0
    /\ pc = [t \in Events |-> "idle"]
    /\ held = [t \in Events |-> 0]
    /\ attempts = [t \in Events |-> 0]
    /\ retry_after = [t \in Events |-> 0]
    /\ result = [t \in Events |-> "none"]
    /\ acquired = 0
    /\ released = 0

PerfInit ==
    \* batches of one item or of MaxBatch; a limiter of one slot, of two, or
    \* of more slots than a batch has items
    \E n \in 0 .. MaxEvents, B \in {1, MaxBatch}, c \in {1, 2, MaxConcurrent} :
        PerfStart(n, B, c)

\* a run whose first batch is full and is followed by another, or whose
\* batches are single items, behind a limiter of one slot or of two
SchedPerfInit ==
    \E B \in {1, MaxBatch}, c \in 1 .. 2 : PerfStart(SchedEvents, B, c)

\* ------------------------------------------------- run_performance_test
\* for batch_num in range(total_batches): build the tasks of the batch and
\* await asyncio.gather(*tasks, return_exceptions=True)
StartBatch ==
    /\ run_pc = "loop"
    /\ batch_num < total_batches
    /\ pc' = [t \in Events |-> IF t \in BatchEvents THEN "start" ELSE pc[t]]
    /\ run_pc' = "gather"
    /\ UNCHANGED <<event_count, batch_size, max_concurrent, sem_value,
                   sem_waiters, metrics, batch_num, held, attempts,
                   retry_after, result, acquired, released>>
    /\ UNCHANGED response_times
    /\ UNCHANGED counted
    /\ UNCHANGED pauses
    /\ UNCHANGED clock
    /\ UNCHANGED runs
    /\ UNCHANGED notPerfVars

\* a wait that ends with the first finished task (asyncio.wait FIRST_COMPLETED)
GatherDoneFirstCompleted ==
    /\ run_pc = "gather"
    /\ \E t \in BatchEvents : pc[t] = "done"
    /\ IF PauseFollows(batch_num, total_batches)
       THEN run_pc' = "pause" /\ pauses' = pauses + 1 /\ UNCHANGED batch_num
       ELSE run_pc' = "loop" /\ batch_num' = batch_num + 1 /\ UNCHANGED pauses
    /\ UNCHANGED <<event_count, batch_size, max_concurrent, sem_value,
                   sem_waiters, metrics, pc, held, attempts, retry_after,
                   result, acquired, released>>
    /\ UNCHANGED response_times
    /\ UNCHANGED counted
    /\ UNCHANGED clock
    /\ UNCHANGED runs
    /\ UNCHANGED notPerfVars

\* gather(*tasks) without return_exceptions: the first failed task ends the wait
GatherDoneOnFirstFailure ==
    /\ run_pc = "gather"
    /\ \/ \A t \in BatchEvents : pc[t] = "done"
       \/ \E t \in BatchEvents : result[t] \in {"failed", "error"}
    /\ IF PauseFollows(batch_num, total_batches)
       THEN run_pc' = "pause" /\ pauses' = pauses + 1 /\ UNCHANGED batch_num
       ELSE run_pc' = "loop" /\ batch_num' = batch_num + 1 /\ UNCHANGED pauses
    /\ UNCHANGED <<event_count, batch_size, max_concurrent, sem_value,
                   sem_waiters, metrics, pc, held, attempts, retry_after,
                   result, acquired, released>>
    /\ UNCHANGED response_times
    /\ UNCHANGED counted
    /\ UNCHANGED clock
    /\ UNCHANGED runs
    /\ UNCHANGED notPerfVars

\* gather returns once every task of the batch has returned; then the pause
\* between batches, except after the last one
GatherDone ==
    /\ run_pc = "gather"
    /\ \A t \in BatchEvents : pc[t] = "done"
    /\ IF PauseFollows(batch_num, total_batches)
       THEN run_pc' = "pause" /\ pauses' = pauses + 1 /\ UNCHANGED batch_num
       ELSE run_pc' = "loop" /\ batch_num' = batch_num + 1 /\ UNCHANGED pauses
    /\ UNCHANGED <<event_count, batch_size, max_concurrent, sem_value,
                   sem_waiters, metrics, pc, held, attempts, retry_after,
                   result, acquired, released>>
    /\ UNCHANGED response_times
    /\ UNCHANGED counted
    /\ UNCHANGED clock
    /\ UNCHANGED runs
    /\ UNCHANGED notPerfVars

\* await asyncio.sleep(0.1) is over
PauseDone ==
    /\ run_pc = "pause"
    /\ run_pc' = "loop"
    /\ batch_num' = batch_num + 1
    /\ UNCHANGED <<event_count, batch_size, max_concurrent, sem_value,
                   sem_waiters, metrics, pc, held, attempts, retry_after,
                   result, acquired, released>>
    /\ UNCHANGED response_times
    /\ UNCHANGED counted
    /\ UNCHANGED pauses
    /\ UNCHANGED clock
    /\ UNCHANGED runs
    /\ UNCHANGED notPerfVars

\* the loop is exhausted: final metrics, return self.metrics
RunReturn ==
    /\ run_pc = "loop"
    /\ batch_num >= total_batches
    /\ run_pc' = "returned"
    /\ UNCHANGED <<event_count, batch_size, max_concurrent, sem_value,
                   sem_waiters, metrics, batch_num, pc, held, attempts,
                   retry_after, result, acquired, released>>
    /\ UNCHANGED response_times
    /\ UNCHANGED counted
    /\ UNCHANGED pauses
    /\ UNCHANGED clock
    /\ UNCHANGED runs
    /\ UNCHANGED notPerfVars

\* tester.print_performance_report(metrics): the success rate divides by
\* metrics.total_events, and ZeroDivisionError leaves the report
PrintReport ==
    /\ run_pc = "returned"
    /\ run_pc' = IF metrics.total_events = 0 THEN "report_raised" ELSE "reported"
    /\ UNCHANGED <<event_count, batch_size, max_concurrent, sem_value,
                   sem_waiters, metrics, batch_num, pc, held, attempts,
                   retry_after, result, acquired, released>>
    /\ UNCHANGED response_times
    /\ UNCHANGED counted
    /\ UNCHANGED pauses
    /\ UNCHANGED clock
    /\ UNCHANGED runs
    /\ UNCHANGED notPerfVars

\* a run entered with the counters of the run before it left as they were
KeepMetrics(n) == [metrics EXCEPT !.total_events = n]

\* self.metrics = PerformanceMetrics(); self.metrics.total_events = len(events)
ResetMetrics(n) == [PerformanceMetrics EXCEPT !.total_events = n]

\* run_stress_test_suite: after the report and the rest of 5 seconds, the
\* next configuration runs on the same tester, with the same semaphore
RunAgain(n, B) ==
    /\ run_pc = "reported"
    /\ runs < MaxRuns
    /\ runs' = runs + 1
    /\ event_count' = n
    /\ batch_size' = B
    /\ metrics' = ResetMetrics(n)
    /\ response_times' = NoSamples
    /\ counted' = NoIncrements
    /\ pauses' = 0
    /\ run_pc' = "loop"
    /\ batch_num' = 0
    /\ pc' = [t \in Events |-> "idle"]
    /\ attempts' = [t \in Events |-> 0]
    /\ retry_after' = [t \in Events |-> 0]
    /\ result' = [t \in Events |-> "none"]
    /\ acquired' = 0
    /\ released' = 0
    /\ UNCHANGED <<max_concurrent, sem_value, sem_waiters, held, clock>>
    /\ UNCHANGED notPerfVars

\* KeyboardInterrupt: asyncio.run cancels the main task, whose gather cancels
\* every task of the batch
Cancel ==
    /\ run_pc \in {"gather", "pause"}
    /\ run_pc' = "cancelled"
    /\ UNCHANGED <<event_count, batch_size, max_concurrent, sem_value,
                   sem_waiters, metrics, batch_num, pc, held, attempts,
                   retry_after, result, acquired, released>>
    /\ UNCHANGED response_times
    /\ UNCHANGED counted
    /\ UNCHANGED pauses
    /\ UNCHANGED clock
    /\ UNCHANGED runs
    /\ UNCHANGED notPerfVars

\* --------------------------------------------------- create_single_event
Running == run_pc = "gather"

\* a task of the batch runs for the first time
StartTask(t) ==
    /\ Running
    /\ pc[t] = "start"
    /\ EnterSemaphore(t)
    /\ UNCHANGED <<event_count, batch_size, max_concurrent, metrics, run_pc,
                   batch_num, retry_after, result, released>>
    /\ UNCHANGED response_times
    /\ UNCHANGED counted
    /\ UNCHANGED pauses
    /\ UNCHANGED runs
    /\ UNCHANGED notPerfVars

\* a released slot wakes the first waiter of the FIFO
WakeUp(t) ==
    /\ Running
    /\ pc[t] = "waiting"
    /\ sem_value > 0
    /\ Head(sem_waiters) = t
    /\ sem_waiters' = Tail(sem_waiters)
    /\ sem_value' = sem_value - 1
    /\ held' = [held EXCEPT ![t] = @ + 1]
    /\ acquired' = acquired + 1
    /\ attempts' = [attempts EXCEPT ![t] = @ + 1]
    /\ pc' = [pc EXCEPT ![t] = "post"]
    /\ clock' = [clock EXCEPT ![t] = StartTime(t, TRUE)]
    /\ UNCHANGED <<event_count, batch_size, max_concurrent, metrics, run_pc,
                   batch_num, retry_after, result, released>>
    /\ UNCHANGED response_times
    /\ UNCHANGED counted
    /\ UNCHANGED pauses
    /\ UNCHANGED runs
    /\ UNCHANGED notPerfVars

\* the response is a 200: count it, then await response.json()
Response200(t) ==
    /\ Running
    /\ pc[t] = "post"
    /\ Increment(t, {"successful_events"})
    /\ pc' = [pc EXCEPT ![t] = "json"]
    /\ UNCHANGED <<event_count, batch_size, max_concurrent, sem_value,
                   sem_waiters, run_pc, batch_num, held, attempts,
                   retry_after, result, acquired, released>>
    /\ AppendSample("s200")
    /\ UNCHANGED pauses
    /\ UNCHANGED clock
    /\ UNCHANGED runs
    /\ UNCHANGED notPerfVars

\* response.json() returned: return the 'success' dict
JsonRead(t) ==
    /\ Running
    /\ pc[t] = "json"
    /\ Return(t, "success")
    /\ UNCHANGED <<event_count, batch_size, max_concurrent, sem_waiters,
                   metrics, run_pc, batch_num, attempts, retry_after,
                   acquired>>
    /\ UNCHANGED response_times
    /\ UNCHANGED counted
    /\ UNCHANGED pauses
    /\ UNCHANGED runs
    /\ UNCHANGED notPerfVars

\* response.json() raised: except Exception counts a failure, returns 'error'
JsonRaises(t) ==
    /\ Running
    /\ pc[t] = "json"
    /\ Increment(t, {"failed_events"})
    /\ Return(t, "error")
    /\ UNCHANGED <<event_count, batch_size, max_concurrent, sem_waiters,
                   run_pc, batch_num, attempts, retry_after, acquired>>
    /\ AppendSample("exception")
    /\ UNCHANGED pauses
    /\ UNCHANGED runs
    /\ UNCHANGED notPerfVars

\* the response is a 429: count it, parse Retry-After, sleep; int() raising
\* ValueError lands in except Exception
Response429(t, h) ==
    /\ Running
    /\ pc[t] = "post"
    /\ IF ParseRetryAfter(h).raises
       THEN /\ Increment(t, {"rate_limited_requests", "failed_events"})
            /\ response_times' = [response_times EXCEPT !.s429 = @ + 1,
                                                        !.exception = @ + 1]
            /\ Return(t, "error")
            /\ UNCHANGED retry_after
       ELSE /\ Increment(t, {"rate_limited_requests"})
            /\ AppendSample("s429")
            /\ retry_after' = [retry_after EXCEPT ![t] = ParseRetryAfter(h).seconds]
            /\ pc' = [pc EXCEPT ![t] = "sleep"]
            /\ clock' = [clock EXCEPT ![t] = "waited"]
            /\ UNCHANGED <<sem_value, held, result, released>>
    /\ UNCHANGED <<event_count, batch_size, max_concurrent, sem_waiters,
                   run_pc, batch_num, attempts, acquired>>
    /\ UNCHANGED pauses
    /\ UNCHANGED runs
    /\ UNCHANGED notPerfVars

\* asyncio.sleep(retry_after) is over: return await self.create_single_event(...)
\* enters the semaphore again, inside the frame that still holds its slot
SleepDone(t) ==
    /\ Running
    /\ pc[t] = "sleep"
    /\ retry_after' = [retry_after EXCEPT ![t] = 0]
    /\ EnterSemaphore(t)
    /\ UNCHANGED <<event_count, batch_size, max_concurrent, metrics, run_pc,
                   batch_num, result, released>>
    /\ UNCHANGED response_times
    /\ UNCHANGED counted
    /\ UNCHANGED pauses
    /\ UNCHANGED runs
    /\ UNCHANGED notPerfVars

\* any other status: count a failure, then await response.text()
ResponseOther(t) ==
    /\ Running
    /\ pc[t] = "post"
    /\ Increment(t, {"failed_events"})
    /\ pc' = [pc EXCEPT ![t] = "text"]
    /\ UNCHANGED <<event_count, batch_size, max_concurrent, sem_value,
                   sem_waiters, run_pc, batch_num, held, attempts,
                   retry_after, result, acquired, released>>
    /\ AppendSample("other")
    /\ UNCHANGED pauses
    /\ UNCHANGED clock
    /\ UNCHANGED runs
    /\ UNCHANGED notPerfVars

\* response.text() returned: return the 'failed' dict
TextRead(t) ==
    /\ Running
    /\ pc[t] = "text"
    /\ Return(t, "failed")
    /\ UNCHANGED <<event_count, batch_size, max_concurrent, sem_waiters,
                   metrics, run_pc, batch_num, attempts, retry_after,
                   acquired>>
    /\ UNCHANGED response_times
    /\ UNCHANGED counted
    /\ UNCHANGED pauses
    /\ UNCHANGED runs
    /\ UNCHANGED notPerfVars

\* response.text() raised: except Exception counts a failure again
TextRaises(t) ==
    /\ Running
    /\ pc[t] = "text"
    /\ Increment(t, {"failed_events"})
    /\ Return(t, "error")
    /\ UNCHANGED <<event_count, batch_size, max_concurrent, sem_waiters,
                   run_pc, batch_num, attempts, retry_after, acquired>>
    /\ AppendSample("exception")
    /\ UNCHANGED pauses
    /\ UNCHANGED runs
    /\ UNCHANGED notPerfVars

\* session.post raised (connection error, timeout): except Exception
PostRaises(t) ==
    /\ Running
    /\ pc[t] = "post"
    /\ Increment(t, {"failed_events"})
    /\ Return(t, "error")
    /\ UNCHANGED <<event_count, batch_size, max_concurrent, sem_waiters,
                   run_pc, batch_num, attempts, retry_after, acquired>>
    /\ AppendSample("exception")
    /\ UNCHANGED pauses
    /\ UNCHANGED runs
    /\ UNCHANGED notPerfVars

\* positions of a task that has been created and has not returned
LivePcs == {"start", "waiting", "post", "json", "text", "sleep"}

\* CancelledError thrown into the task at its suspension point; it is a
\* BaseException, so except Exception does not see it and only the
\* `async with` blocks run: every held slot is released, a queued acquirer
\* leaves the FIFO.  gather cancels its children in order and the loop runs
\* them in that order.
TaskCancelled(t) ==
    /\ run_pc = "cancelled"
    /\ pc[t] \in LivePcs
    /\ \A u \in Events : u < t => pc[u] \notin LivePcs
    /\ sem_waiters' = SelectSeq(sem_waiters, LAMBDA u : u # t)
    /\ sem_value' = sem_value + SlotsReleased(t)
    /\ released' = released + SlotsReleased(t)
    /\ held' = [held EXCEPT ![t] = 0]
    /\ retry_after' = [retry_after EXCEPT ![t] = 0]
    /\ pc' = [pc EXCEPT ![t] = "cancelled"]
    /\ clock' = [clock EXCEPT ![t] = "idle"]
    /\ UNCHANGED <<event_count, batch_size, max_concurrent, metrics, run_pc,
                   batch_num, attempts, result, acquired>>
    /\ UNCHANGED response_times
    /\ UNCHANGED counted
    /\ UNCHANGED pauses
    /\ UNCHANGED runs
    /\ UNCHANGED notPerfVars

TaskStep(t) ==
    \/ StartTask(t)
    \/ WakeUp(t)
    \/ Response200(t)
    \/ JsonRead(t)
    \/ JsonRaises(t)
    \/ \E h \in RetryAfterHeaders : Response429(t, h)
    \/ SleepDone(t)
    \/ ResponseOther(t)
    \/ TextRead(t)
    \/ TextRaises(t)
    \/ PostRaises(t)

\* ------------------------------------------ construction and entry of a run
\* CalendarPerformanceTester(max_concurrent=c) for any integer c, before
\* __init__ has run, and the arguments run_performance_test will get
ConfigStart(n, B, c) ==
    /\ event_count = n
    /\ batch_size = B
    /\ max_concurrent = c
    /\ sem_value = 0
    /\ sem_waiters = <<>>
    /\ metrics = PerformanceMetrics
    /\ response_times = NoSamples
    /\ counted = NoIncrements
    /\ runs = 1
    /\ clock = [t \in Events |-> "idle"]
    /\ pauses = 0
    /\ run_pc = "new"
    /\ batch_num = 0
    /\ pc = [t \in Events |-> "idle"]
    /\ held = [t \in Events |-> 0]
    /\ attempts = [t \in Events |-> 0]
    /\ retry_after = [t \in Events |-> 0]
    /\ result = [t \in Events |-> "none"]
    /\ acquired = 0
    /\ released = 0

\* any configuration, the malformed ones included
ConfigInit ==
    \E n \in 0 .. MaxEvents, B \in (0 - 1) .. MaxBatch, c \in (0 - 1) .. 1 :
        ConfigStart(n, B, c)

\* __init__: asyncio.Semaphore(max_concurrent) raises ValueError for a
\* negative value and accepts 0
Construct ==
    /\ run_pc = "new"
    /\ IF max_concurrent < 0
       THEN run_pc' = "raised" /\ UNCHANGED sem_value
       ELSE run_pc' = "called" /\ sem_value' = SemaphoreInit(max_concurrent)
    /\ UNCHANGED <<event_count, batch_size, max_concurrent, sem_waiters,
                   metrics, batch_num, pc, held, attempts, retry_after,
                   result, acquired, released>>
    /\ UNCHANGED response_times
    /\ UNCHANGED counted
    /\ UNCHANGED pauses
    /\ UNCHANGED clock
    /\ UNCHANGED runs
    /\ UNCHANGED notPerfVars

\* run_performance_test up to the loop: the metrics are reset, total_events
\* set, and total_batches computed, which divides by batch_size
EnterRun ==
    /\ run_pc = "called"
    /\ metrics' = [PerformanceMetrics EXCEPT !.total_events = event_count]
    /\ run_pc' = IF batch_size = 0 THEN "raised" ELSE "loop"
    /\ UNCHANGED <<event_count, batch_size, max_concurrent, sem_value,
                   sem_waiters, batch_num, pc, held, attempts, retry_after,
                   result, acquired, released>>
    /\ UNCHANGED response_times
    /\ UNCHANGED counted
    /\ UNCHANGED pauses
    /\ UNCHANGED clock
    /\ UNCHANGED runs
    /\ UNCHANGED notPerfVars

PerfNext ==
    \/ StartBatch
    \/ GatherDone
    \/ PauseDone
    \/ RunReturn
    \/ PrintReport
    \/ Cancel
    \/ \E t \in Events : TaskStep(t)
    \/ \E t \in Events : TaskCancelled(t)

\* =========================================================================
\* Part II: ResilientCalendarClient.make_resilient_request
\* =========================================================================
\* one call alone, or two calls gathered concurrently
Calls == {1, 2}

\* base of the exponential backoff, (2 ** attempt) seconds, in milliseconds
BackoffBaseMs == 1000

\* random.uniform(0, 1), in milliseconds: the ends of [0, 1)
JitterMs == {0, 999}

\* await asyncio.sleep(1) of the 401 branch, in milliseconds
UnauthorizedSleepMs == 1000

\* exceptions the three handlers tell apart: asyncio.TimeoutError,
\* aiohttp.ClientError / ConnectionError, and any other Exception
Exceptions == {"TimeoutError", "ClientError", "Exception"}

\* self.stats = {...}
StatsInit ==
    [total_attempts |-> 0, successful_requests |-> 0, failed_requests |-> 0,
     retries_performed |-> 0, rate_limits_hit |-> 0, network_errors |-> 0,
     timeout_errors |-> 0]

RECURSIVE Pow2(_)
Pow2(n) == IF n = 0 THEN 1 ELSE 2 * Pow2(n - 1)

\* a backoff that grows by one second per attempt
BackoffLinearMs(k, jitter) == BackoffBaseMs * (k + 1) + jitter

\* backoff_time = (2 ** attempt) + random.uniform(0, 1)
BackoffMs(k, jitter) == BackoffBaseMs * Pow2(k) + jitter

\* each call's share of stats: the counters a claim speaks of per call
OwnInit ==
    [total_attempts |-> 0, successful_requests |-> 0, failed_requests |-> 0,
     retries_performed |-> 0, rate_limits_hit |-> 0]

ResInit ==
    /\ num_calls \in Calls
    /\ max_retries \in 0 .. (IF num_calls = 1 THEN MaxRetries ELSE MaxRetriesConcurrent)
    /\ stats = StatsInit
    /\ rpc = [c \in Calls |-> "idle"]
    /\ attempt = [c \in Calls |-> 0]
    /\ last_exception = [c \in Calls |-> "None"]
    /\ header = [c \in Calls |-> "none"]
    /\ sleep_ms = [c \in Calls |-> 0]
    /\ first_status = [c \in Calls |-> "none"]
    /\ own = [c \in Calls |-> OwnInit]
    /\ classified = [c \in Calls |-> 0]
    /\ ret = [c \in Calls |-> "none"]

\* the counters that classify an attempt's outcome
OutcomeCounters == {"successful_requests", "rate_limits_hit", "network_errors",
                    "timeout_errors"}

\* self.stats[k] += 1 by call c, for every k of ks; own[c] keeps c's share,
\* and classified[c] how many outcome counters the attempt has incremented
\* (total_attempts += 1 opens the next attempt)
Count(c, ks) ==
    /\ stats' = [k \in DOMAIN stats |-> IF k \in ks THEN stats[k] + 1 ELSE stats[k]]
    /\ own' = [own EXCEPT ![c] =
                 [k \in DOMAIN @ |-> IF k \in ks THEN @[k] + 1 ELSE @[k]]]
    /\ classified' = [classified EXCEPT ![c] =
                        IF "total_attempts" \in ks THEN 0
                        ELSE @ + Cardinality(ks \cap OutcomeCounters)]

\* a retry test with a breaker shared by the calls of the client: no retry
\* once some other call has failed
MayRetryUnlessOthersFailed(c) ==
    /\ attempt[c] < max_retries
    /\ stats.failed_requests = own[c].failed_requests

\* a retry test that stops one retry early
MayRetryOneFewer(c) == attempt[c] < max_retries - 1

\* a retry test that allows one retry too many
MayRetryOneMore(c) == attempt[c] <= max_retries

\* the retry test of every retryable branch
MayRetry(c) == attempt[c] < max_retries

\* the loop is left (break, or range(max_retries + 1) exhausted):
\* self.stats['failed_requests'] += 1 and the error dict is returned
GiveUp(c, ks) ==
    /\ Count(c, ks \cup {"failed_requests"})
    /\ rpc' = [rpc EXCEPT ![c] = "done"]
    /\ ret' = [ret EXCEPT ![c] = "error"]
    /\ UNCHANGED <<attempt, sleep_ms>>

\* a retryable branch: if attempt < max_retries, count a retry and sleep
\* ms before `continue`; otherwise fall out of the last iteration
RetryAfterSleep(c, ks, ms) ==
    IF MayRetry(c)
    THEN /\ Count(c, ks \cup {"retries_performed"})
         /\ rpc' = [rpc EXCEPT ![c] = "sleep"]
         /\ sleep_ms' = [sleep_ms EXCEPT ![c] = ms]
         /\ UNCHANGED <<attempt, ret>>
    ELSE GiveUp(c, ks)

\* the three except clauses, for exception e raised inside the try
Except(c, e, jitter) ==
    /\ last_exception' = [last_exception EXCEPT ![c] = e]
    /\ CASE e = "TimeoutError" ->
              RetryAfterSleep(c, {"timeout_errors"}, BackoffMs(attempt[c], jitter))
         [] e = "ClientError" ->
              RetryAfterSleep(c, {"network_errors"}, BackoffMs(attempt[c], jitter))
         [] OTHER -> GiveUp(c, {})

\* the call is made: first iteration of the loop, up to the awaits of
\* simulator.apply_conditions() and session.request(...)
Call(c) ==
    /\ c <= num_calls
    /\ rpc[c] = "idle"
    /\ Count(c, {"total_attempts"})
    /\ rpc' = [rpc EXCEPT ![c] = "request"]
    /\ UNCHANGED <<num_calls, max_retries, attempt, last_exception, sleep_ms,
                   first_status, ret>>
    /\ UNCHANGED header
    /\ UNCHANGED notResVars

\* a response with status class st arrives
Receive(c, st) ==
    first_status' = [first_status EXCEPT ![c] = IF attempt[c] = 0 THEN st ELSE @]

\* status 200: count the success, then await response.json()
Status200(c) ==
    /\ rpc[c] = "request"
    /\ Receive(c, "200")
    /\ Count(c, {"successful_requests"})
    /\ rpc' = [rpc EXCEPT ![c] = "json"]
    /\ UNCHANGED <<num_calls, max_retries, attempt, last_exception, sleep_ms, ret>>
    /\ UNCHANGED header
    /\ UNCHANGED notResVars

\* response.json() returned: the call returns the payload
JsonReturned(c) ==
    /\ rpc[c] = "json"
    /\ rpc' = [rpc EXCEPT ![c] = "done"]
    /\ ret' = [ret EXCEPT ![c] = "payload"]
    /\ UNCHANGED <<num_calls, max_retries, stats, attempt, last_exception,
                   sleep_ms, first_status, own, classified>>
    /\ UNCHANGED header
    /\ UNCHANGED notResVars

\* response.json(), or response.text() of an error status, raised
BodyRaises(c, e, jitter) ==
    /\ rpc[c] \in {"json", "text5xx", "text4xx"}
    /\ Except(c, e, jitter)
    /\ UNCHANGED <<num_calls, max_retries, first_status>>
    /\ UNCHANGED header
    /\ UNCHANGED notResVars

\* status 429: count it, parse Retry-After and sleep that long; the retry
\* test comes after the sleep.  int() raising lands in except Exception.
Status429(c, h) ==
    /\ rpc[c] = "request"
    /\ Receive(c, "429")
    /\ IF ParseRetryAfter(h).raises
       THEN /\ last_exception' = [last_exception EXCEPT ![c] = "Exception"]
            /\ GiveUp(c, {"rate_limits_hit"})
            /\ header' = [header EXCEPT ![c] = h]
       ELSE /\ Count(c, {"rate_limits_hit"})
            /\ header' = [header EXCEPT ![c] = h]
            /\ rpc' = [rpc EXCEPT ![c] = "sleep429"]
            /\ sleep_ms' = [sleep_ms EXCEPT ![c] = 1000 * ParseRetryAfter(h).seconds]
            /\ UNCHANGED <<attempt, last_exception, ret>>
    /\ UNCHANGED <<num_calls, max_retries>>
    /\ UNCHANGED notResVars

\* `continue`: the next iteration, up to its awaits
Continue(c) ==
    /\ attempt' = [attempt EXCEPT ![c] = @ + 1]
    /\ rpc' = [rpc EXCEPT ![c] = "request"]
    /\ sleep_ms' = [sleep_ms EXCEPT ![c] = 0]
    /\ UNCHANGED ret

\* asyncio.sleep(retry_after) is over: retry if attempt < max_retries
RateLimitSleepDone(c) ==
    /\ rpc[c] = "sleep429"
    /\ header' = [header EXCEPT ![c] = "none"]
    /\ IF MayRetry(c)
       THEN /\ Count(c, {"retries_performed", "total_attempts"})
            /\ Continue(c)
       ELSE /\ Count(c, {"failed_requests"})
            /\ rpc' = [rpc EXCEPT ![c] = "done"]
            /\ ret' = [ret EXCEPT ![c] = "error"]
            /\ sleep_ms' = [sleep_ms EXCEPT ![c] = 0]
            /\ UNCHANGED attempt
    /\ UNCHANGED <<num_calls, max_retries, last_exception, first_status>>
    /\ UNCHANGED notResVars

\* status 401: retried after a fixed second, with no exponential backoff
Status401(c) ==
    /\ rpc[c] = "request"
    /\ Receive(c, "401")
    /\ IF MayRetry(c)
       THEN /\ Count(c, {"retries_performed"})
            /\ rpc' = [rpc EXCEPT ![c] = "sleep401"]
            /\ sleep_ms' = [sleep_ms EXCEPT ![c] = UnauthorizedSleepMs]
            /\ UNCHANGED <<attempt, ret>>
       ELSE GiveUp(c, {})
    /\ UNCHANGED <<num_calls, max_retries, last_exception>>
    /\ UNCHANGED header
    /\ UNCHANGED notResVars

\* status >= 500, or any other status: await response.text()
StatusError(c, st) ==
    /\ rpc[c] = "request"
    /\ Receive(c, st)
    /\ rpc' = [rpc EXCEPT ![c] = IF st = "5xx" THEN "text5xx" ELSE "text4xx"]
    /\ UNCHANGED <<num_calls, max_retries, stats, attempt, last_exception,
                   sleep_ms, own, classified, ret>>
    /\ UNCHANGED header
    /\ UNCHANGED notResVars

\* the body of a 5xx was read: retry with backoff
ServerErrorRead(c, jitter) ==
    /\ rpc[c] = "text5xx"
    /\ RetryAfterSleep(c, {}, BackoffMs(attempt[c], jitter))
    /\ UNCHANGED <<num_calls, max_retries, last_exception, first_status>>
    /\ UNCHANGED header
    /\ UNCHANGED notResVars

\* a client error treated like a server error: retried with backoff
ClientErrorRetried(c) ==
    /\ rpc[c] = "text4xx"
    /\ RetryAfterSleep(c, {}, BackoffMs(attempt[c], 0))
    /\ UNCHANGED <<num_calls, max_retries, last_exception, first_status>>
    /\ UNCHANGED header
    /\ UNCHANGED notResVars

\* the body of a client error was read: break
ClientErrorRead(c) ==
    /\ rpc[c] = "text4xx"
    /\ GiveUp(c, {})
    /\ UNCHANGED <<num_calls, max_retries, last_exception, first_status>>
    /\ UNCHANGED header
    /\ UNCHANGED notResVars

\* apply_conditions() or session.request(...) raised
RequestRaises(c, e, jitter) ==
    /\ rpc[c] = "request"
    /\ Except(c, e, jitter)
    /\ UNCHANGED <<num_calls, max_retries, first_status>>
    /\ UNCHANGED header
    /\ UNCHANGED notResVars

\* the sleep before `continue` is over
BackoffDone(c) ==
    /\ rpc[c] \in {"sleep", "sleep401"}
    /\ Count(c, {"total_attempts"})
    /\ Continue(c)
    /\ UNCHANGED <<num_calls, max_retries, last_exception, first_status>>
    /\ UNCHANGED header
    /\ UNCHANGED notResVars

ResNext ==
    \E c \in Calls :
        \/ Call(c)
        \/ Status200(c)
        \/ JsonReturned(c)
        \/ \E e \in Exceptions, j \in JitterMs : BodyRaises(c, e, j)
        \/ \E h \in RetryAfterHeaders : Status429(c, h)
        \/ RateLimitSleepDone(c)
        \/ Status401(c)
        \/ \E st \in {"5xx", "4xx"} : StatusError(c, st)
        \/ \E j \in JitterMs : ServerErrorRead(c, j)
        \/ ClientErrorRead(c)
        \/ \E e \in Exceptions, j \in JitterMs : RequestRaises(c, e, j)
        \/ BackoffDone(c)

\* =========================================================================
\* Part III: CalendarDemoClient.make_request and create_event
\* =========================================================================
\* create_event calls that run concurrently (one gather)
DemoCalls == 1 .. MaxDemoCalls

\* for attempt in range(3)
DemoAttempts == 3

\* exceptions make_request tells apart: its one except clause catches
\* aiohttp.ClientError and asyncio.TimeoutError, and nothing else
DemoExceptions == {"ClientError", "TimeoutError", "Exception"}
DemoCaught == {"ClientError", "TimeoutError"}

\* what response.json() gives: a dict, with or without the key 'error'
DemoPayloads == {"event", "error_key"}

\* self.stats = {...}: the integer counters
DemoStatsInit ==
    [total_requests |-> 0, successful_requests |-> 0, failed_requests |-> 0,
     events_created |-> 0]

DemoInit ==
    /\ demo_stats = DemoStatsInit
    /\ dpc = [c \in DemoCalls |-> "idle"]
    /\ dattempt = [c \in DemoCalls |-> 0]
    /\ dsleep = [c \in DemoCalls |-> 0]
    /\ dlast = [c \in DemoCalls |-> "none"]
    /\ dret = [c \in DemoCalls |-> "none"]

\* self.stats[k] += 1
DemoCount(k) == demo_stats' = [demo_stats EXCEPT ![k] = @ + 1]

\* create_event -> make_request: total_requests += 1 and the first request
DemoCall(c) ==
    /\ dpc[c] = "idle"
    /\ DemoCount("total_requests")
    /\ dpc' = [dpc EXCEPT ![c] = "request"]
    /\ UNCHANGED <<dattempt, dsleep, dlast, dret>>
    /\ UNCHANGED notDemoVars

\* the end of an iteration of the loop that did not return: the next
\* iteration issues its request; after the third, failed_requests += 1 and
\* the error dict is returned, which create_event passes on
DemoNextIteration(c) ==
    IF dattempt[c] < DemoAttempts - 1
    THEN /\ dattempt' = [dattempt EXCEPT ![c] = @ + 1]
         /\ dpc' = [dpc EXCEPT ![c] = "request"]
         /\ dsleep' = [dsleep EXCEPT ![c] = 0]
         /\ UNCHANGED <<demo_stats, dret>>
    ELSE /\ DemoCount("failed_requests")
         /\ dpc' = [dpc EXCEPT ![c] = "done"]
         /\ dret' = [dret EXCEPT ![c] = "error"]
         /\ dsleep' = [dsleep EXCEPT ![c] = 0]
         /\ UNCHANGED dattempt

\* an exception e inside the try: caught ones sleep 2 ** attempt unless the
\* attempt is the last; any other leaves make_request and create_event
DemoExcept(c, e) ==
    IF e \in DemoCaught
    THEN IF dattempt[c] < 2
         THEN /\ dpc' = [dpc EXCEPT ![c] = "backoff"]
              /\ dsleep' = [dsleep EXCEPT ![c] = Pow2(dattempt[c])]
              /\ UNCHANGED <<demo_stats, dattempt, dret>>
         ELSE DemoNextIteration(c)
    ELSE /\ dpc' = [dpc EXCEPT ![c] = "done"]
         /\ dret' = [dret EXCEPT ![c] = e]
         /\ UNCHANGED <<demo_stats, dattempt, dsleep>>

\* a response with status class st arrives
DemoReceive(c, st) == dlast' = [dlast EXCEPT ![c] = st]

\* status 200: successful_requests += 1, then await response.json()
DemoStatus200(c) ==
    /\ dpc[c] = "request"
    /\ DemoReceive(c, "200")
    /\ DemoCount("successful_requests")
    /\ dpc' = [dpc EXCEPT ![c] = "json"]
    /\ UNCHANGED <<dattempt, dsleep, dret>>
    /\ UNCHANGED notDemoVars

\* response.json() returned payload p; create_event counts the event
\* unless the payload has the key 'error'
DemoJsonReturned(c, p) ==
    /\ dpc[c] = "json"
    /\ IF p = "event" THEN DemoCount("events_created") ELSE UNCHANGED demo_stats
    /\ dpc' = [dpc EXCEPT ![c] = "done"]
    /\ dret' = [dret EXCEPT ![c] = p]
    /\ UNCHANGED <<dattempt, dsleep, dlast>>
    /\ UNCHANGED notDemoVars

\* response.json() or response.text() raised
DemoBodyRaises(c, e) ==
    /\ dpc[c] \in {"json", "text5xx", "text4xx"}
    /\ DemoExcept(c, e)
    /\ UNCHANGED dlast
    /\ UNCHANGED notDemoVars

\* status 429: int(Retry-After) and sleep; the ValueError of int() is not caught
DemoStatus429(c, h) ==
    /\ dpc[c] = "request"
    /\ DemoReceive(c, "429")
    /\ IF ParseRetryAfter(h).raises
       THEN DemoExcept(c, "ValueError")
       ELSE /\ dpc' = [dpc EXCEPT ![c] = "sleep429"]
            /\ dsleep' = [dsleep EXCEPT ![c] = ParseRetryAfter(h).seconds]
            /\ UNCHANGED <<demo_stats, dattempt, dret>>
    /\ UNCHANGED notDemoVars

\* asyncio.sleep(retry_after) is over: continue
DemoRateLimitSleepDone(c) ==
    /\ dpc[c] = "sleep429"
    /\ DemoNextIteration(c)
    /\ UNCHANGED dlast
    /\ UNCHANGED notDemoVars

\* any other status, a 5xx or a 4xx alike: await response.text()
DemoStatusOther(c, st) ==
    /\ dpc[c] = "request"
    /\ DemoReceive(c, st)
    /\ dpc' = [dpc EXCEPT ![c] = IF st = "5xx" THEN "text5xx" ELSE "text4xx"]
    /\ UNCHANGED <<demo_stats, dattempt, dsleep, dret>>
    /\ UNCHANGED notDemoVars

\* the error body was read and logged: the iteration ends with no sleep
DemoTextRead(c) ==
    /\ dpc[c] \in {"text5xx", "text4xx"}
    /\ DemoNextIteration(c)
    /\ UNCHANGED dlast
    /\ UNCHANGED notDemoVars

\* session.request(...) raised
DemoRequestRaises(c, e) ==
    /\ dpc[c] = "request"
    /\ DemoReceive(c, "exception")
    /\ DemoExcept(c, e)
    /\ UNCHANGED notDemoVars

\* asyncio.sleep(2 ** attempt) is over
DemoBackoffDone(c) ==
    /\ dpc[c] = "backoff"
    /\ DemoNextIteration(c)
    /\ UNCHANGED dlast
    /\ UNCHANGED notDemoVars

DemoNext ==
    \E c \in DemoCalls :
        \/ DemoCall(c)
        \/ DemoStatus200(c)
        \/ \E p \in DemoPayloads : DemoJsonReturned(c, p)
        \/ \E e \in DemoExceptions : DemoBodyRaises(c, e)
        \/ \E h \in RetryAfterHeaders : DemoStatus429(c, h)
        \/ DemoRateLimitSleepDone(c)
        \/ \E st \in {"5xx", "4xx"} : DemoStatusOther(c, st)
        \/ DemoTextRead(c)
        \/ \E e \in DemoExceptions : DemoRequestRaises(c, e)
        \/ DemoBackoffDone(c)

\* =========================================================================
\* Part IV: PerformanceDemo.demo_bulk_event_creation (the batch loop)
\* =========================================================================
\* batch_size = 10
DemoBatchSize == 10

BulkEvents == 0 .. (MaxBulkEvents - 1)

bulk_total_batches == TotalBatches(bulk_event_count, DemoBatchSize)
BulkBatchEvents ==
    SliceSet(bulk_event_count, StartIdx(bulk_batch_num, DemoBatchSize),
             EndIdx(bulk_batch_num, DemoBatchSize, bulk_event_count))

BulkInit ==
    /\ bulk_event_count \in 0 .. MaxBulkEvents
    /\ bulk_run_pc = "loop"
    /\ bulk_batch_num = 0
    /\ bulk_pc = [t \in BulkEvents |-> "idle"]
    /\ bulk_pauses = 0

\* for batch_num in range(total_batches): the create_event coroutines of
\* the slice are handed to asyncio.gather(*tasks, return_exceptions=True)
BulkStartBatch ==
    /\ bulk_run_pc = "loop"
    /\ bulk_batch_num < bulk_total_batches
    /\ bulk_pc' = [t \in BulkEvents |->
                     IF t \in BulkBatchEvents THEN "start" ELSE bulk_pc[t]]
    /\ bulk_run_pc' = "gather"
    /\ UNCHANGED <<bulk_event_count, bulk_batch_num>>
    /\ UNCHANGED bulk_pauses
    /\ UNCHANGED notBulkVars

\* a task runs for the first time: create_event -> make_request issues the
\* first request (Part III follows the call from here on)
BulkTaskStart(t) ==
    /\ bulk_run_pc = "gather"
    /\ bulk_pc[t] = "start"
    /\ bulk_pc' = [bulk_pc EXCEPT ![t] = "request"]
    /\ UNCHANGED <<bulk_event_count, bulk_run_pc, bulk_batch_num>>
    /\ UNCHANGED bulk_pauses
    /\ UNCHANGED notBulkVars

\* create_event is over: it returned a dict or raised, and gather keeps
\* either as the task's result
BulkTaskFinish(t) ==
    /\ bulk_run_pc = "gather"
    /\ bulk_pc[t] = "request"
    /\ bulk_pc' = [bulk_pc EXCEPT ![t] = "done"]
    /\ UNCHANGED <<bulk_event_count, bulk_run_pc, bulk_batch_num>>
    /\ UNCHANGED bulk_pauses
    /\ UNCHANGED notBulkVars

\* gather returns once every task of the batch is over; the pause follows
\* unless the batch is the last
BulkGatherDone ==
    /\ bulk_run_pc = "gather"
    /\ \A t \in BulkBatchEvents : bulk_pc[t] = "done"
    /\ IF PauseFollows(bulk_batch_num, bulk_total_batches)
       THEN /\ bulk_run_pc' = "pause"
            /\ bulk_pauses' = bulk_pauses + 1
            /\ UNCHANGED bulk_batch_num
       ELSE /\ bulk_run_pc' = "loop"
            /\ bulk_batch_num' = bulk_batch_num + 1
            /\ UNCHANGED bulk_pauses
    /\ UNCHANGED <<bulk_event_count, bulk_pc>>
    /\ UNCHANGED notBulkVars

\* await asyncio.sleep(0.1) is over
BulkPauseDone ==
    /\ bulk_run_pc = "pause"
    /\ bulk_run_pc' = "loop"
    /\ bulk_batch_num' = bulk_batch_num + 1
    /\ UNCHANGED <<bulk_event_count, bulk_pc>>
    /\ UNCHANGED bulk_pauses
    /\ UNCHANGED notBulkVars

\* the loop is over: the results are logged and events_created returned
BulkReturn ==
    /\ bulk_run_pc = "loop"
    /\ bulk_batch_num >= bulk_total_batches
    /\ bulk_run_pc' = "returned"
    /\ UNCHANGED <<bulk_event_count, bulk_batch_num, bulk_pc>>
    /\ UNCHANGED bulk_pauses
    /\ UNCHANGED notBulkVars

BulkNext ==
    \/ BulkStartBatch
    \/ \E t \in BulkEvents : BulkTaskStart(t)
    \/ \E t \in BulkEvents : BulkTaskFinish(t)
    \/ BulkGatherDone
    \/ BulkPauseDone
    \/ BulkReturn

\* =========================================================================
\* Part V: the batching arithmetic, for any list length and batch size
\* =========================================================================
\* batch sizes: small ones and the fixed size of demo_bulk_event_creation
BatchSizes == (1 .. MaxPartBatch) \cup {DemoBatchSize}

PartInit ==
    /\ part_n \in 0 .. MaxItems
    /\ part_B \in BatchSizes
    /\ part_k = 0
    /\ part_batches = <<>>
    /\ part_done = FALSE

\* one iteration: batch_events = events[start_idx:end_idx]
FormBatch ==
    /\ ~part_done
    /\ part_k < TotalBatches(part_n, part_B)
    /\ part_batches' = Append(part_batches,
                              Slice(part_n, StartIdx(part_k, part_B),
                                    EndIdx(part_k, part_B, part_n)))
    /\ part_k' = part_k + 1
    /\ UNCHANGED <<part_n, part_B, part_done>>
    /\ UNCHANGED notPartVars

\* range(total_batches) is exhausted
LoopEnds ==
    /\ ~part_done
    /\ part_k >= TotalBatches(part_n, part_B)
    /\ part_done' = TRUE
    /\ UNCHANGED <<part_n, part_B, part_k, part_batches>>
    /\ UNCHANGED notPartVars

PartNext == FormBatch \/ LoopEnds

\* =========================================================================
\* Part VI: the mock backend (demo_backend.py)
\* =========================================================================
\* The handlers are plain `def` functions, which the server runs in worker
\* threads: requests are handled concurrently, and a thread can be switched
\* out between the read and the write of `demo_stats[k] += 1`.

\* POST /v1/calendar/events requests
Posts == 1 .. MaxPosts

\* demo_stats = {...}
BackendStatsInit ==
    [total_requests |-> 0, successful_requests |-> 0, failed_requests |-> 0,
     events_created |-> 0]

\* the counters create_calendar_event increments, as handler positions
BackendCounters == {"total_requests", "failed_requests", "successful_requests",
                    "events_created"}

\* no event id
NoId == <<>>

BackendInit ==
    /\ backend_stats = BackendStatsInit
    /\ backend_gen = 0
    /\ bpc = [h \in Posts |-> "idle"]
    /\ bloaded = [h \in Posts |-> FALSE]
    /\ bref = [h \in Posts |-> 0]
    /\ bval = [h \in Posts |-> 0]
    /\ bstatus = [h \in Posts |-> "none"]
    /\ bid = [h \in Posts |-> NoId]
    /\ now = 0

\* f"demo_event_{demo_stats['events_created']}_{int(time.time())}"
EventId(n, second) == <<n, second>>

\* a request arrives and a worker thread enters create_calendar_event
CreateCalendarEvent(h) ==
    /\ bpc[h] = "idle"
    /\ bpc' = [bpc EXCEPT ![h] = "total_requests"]
    /\ UNCHANGED <<backend_stats, backend_gen, bloaded, bref, bval, bstatus,
                   bid, now>>
    /\ UNCHANGED notBackVars

\* demo_stats[k] += 1, first half: the global is looked up and the counter read
LoadCounter(h) ==
    /\ bpc[h] \in BackendCounters
    /\ ~bloaded[h]
    /\ bloaded' = [bloaded EXCEPT ![h] = TRUE]
    /\ bref' = [bref EXCEPT ![h] = backend_gen]
    /\ bval' = [bval EXCEPT ![h] = backend_stats[bpc[h]]]
    /\ UNCHANGED <<backend_stats, backend_gen, bpc, bstatus, bid, now>>
    /\ UNCHANGED notBackVars

\* what follows the increment of counter k in create_calendar_event
AfterCounter(k) ==
    CASE k = "total_requests" -> "sleep"
      [] k = "failed_requests" -> "done"
      [] k = "successful_requests" -> "events_created"
      [] OTHER -> "event_id"

\* demo_stats[k] += 1, second half: the sum is stored in the dict that was
\* looked up, which a reset may have replaced since.  After failed_requests
\* the handler raises HTTPException(500).
StoreCounter(h) ==
    /\ bpc[h] \in BackendCounters
    /\ bloaded[h]
    /\ backend_stats' = IF bref[h] = backend_gen
                         THEN [backend_stats EXCEPT ![bpc[h]] = bval[h] + 1]
                         ELSE backend_stats
    /\ bloaded' = [bloaded EXCEPT ![h] = FALSE]
    /\ bref' = [bref EXCEPT ![h] = 0]
    /\ bval' = [bval EXCEPT ![h] = 0]
    /\ bpc' = [bpc EXCEPT ![h] = AfterCounter(bpc[h])]
    /\ bstatus' = [bstatus EXCEPT ![h] =
                      IF bpc[h] = "failed_requests" THEN "500" ELSE @]
    /\ UNCHANGED <<backend_gen, bid, now>>
    /\ UNCHANGED notBackVars

\* time.sleep(processing_delay) is over; random.random() < 0.05 decides
ProcessingDone(h, fails) ==
    /\ bpc[h] = "sleep"
    /\ bpc' = [bpc EXCEPT ![h] =
                  IF fails THEN "failed_requests" ELSE "successful_requests"]
    /\ UNCHANGED <<backend_stats, backend_gen, bloaded, bref, bval, bstatus,
                   bid, now>>
    /\ UNCHANGED notBackVars

\* event_id = f"demo_event_{...}_{...}" and the 200 response
ReturnEvent(h) ==
    /\ bpc[h] = "event_id"
    /\ bid' = [bid EXCEPT ![h] = EventId(backend_stats.events_created, now)]
    /\ bstatus' = [bstatus EXCEPT ![h] = "200"]
    /\ bpc' = [bpc EXCEPT ![h] = "done"]
    /\ UNCHANGED <<backend_stats, backend_gen, bloaded, bref, bval, now>>
    /\ UNCHANGED notBackVars

\* POST /reset-stats: the global is bound to a new dict of zeros
ResetDemoStats ==
    /\ backend_gen < MaxResets
    /\ backend_gen' = backend_gen + 1
    /\ backend_stats' = BackendStatsInit
    /\ UNCHANGED <<bpc, bloaded, bref, bval, bstatus, bid, now>>
    /\ UNCHANGED notBackVars

\* the wall clock reaches the next second
Tick ==
    /\ now < MaxSeconds
    /\ now' = now + 1
    /\ UNCHANGED <<backend_stats, backend_gen, bpc, bloaded, bref, bval,
                   bstatus, bid>>
    /\ UNCHANGED notBackVars

BackendNext ==
    \/ \E h \in Posts :
          \/ CreateCalendarEvent(h)
          \/ LoadCounter(h)
          \/ StoreCounter(h)
          \/ \E fails \in BOOLEAN : ProcessingDone(h, fails)
          \/ ReturnEvent(h)
    \/ ResetDemoStats
    \/ Tick

\* =========================================================================
\* Specifications
\* =========================================================================
\* the client that is not under study stays as constructed
ResIdle ==
    /\ num_calls = 1
    /\ max_retries = DefaultMaxRetries
    /\ stats = StatsInit
    /\ rpc = [c \in Calls |-> "idle"]
    /\ attempt = [c \in Calls |-> 0]
    /\ last_exception = [c \in Calls |-> "None"]
    /\ header = [c \in Calls |-> "none"]
    /\ sleep_ms = [c \in Calls |-> 0]
    /\ first_status = [c \in Calls |-> "none"]
    /\ own = [c \in Calls |-> OwnInit]
    /\ classified = [c \in Calls |-> 0]
    /\ ret = [c \in Calls |-> "none"]

PerfIdle ==
    /\ event_count = 0
    /\ batch_size = 1
    /\ max_concurrent = 1
    /\ sem_value = SemaphoreInit(1)
    /\ sem_waiters = <<>>
    /\ metrics = PerformanceMetrics
    /\ response_times = NoSamples
    /\ counted = NoIncrements
    /\ runs = 1
    /\ clock = [t \in Events |-> "idle"]
    /\ pauses = 0
    /\ run_pc = "idle"
    /\ batch_num = 0
    /\ pc = [t \in Events |-> "idle"]
    /\ held = [t \in Events |-> 0]
    /\ attempts = [t \in Events |-> 0]
    /\ retry_after = [t \in Events |-> 0]
    /\ result = [t \in Events |-> "none"]
    /\ acquired = 0
    /\ released = 0

\* demo_bulk_event_creation has not been called
BulkIdle ==
    /\ bulk_event_count = 0
    /\ bulk_run_pc = "idle"
    /\ bulk_batch_num = 0
    /\ bulk_pc = [t \in BulkEvents |-> "idle"]
    /\ bulk_pauses = 0

\* no list is being partitioned
PartIdle ==
    /\ part_n = 0
    /\ part_B = 1
    /\ part_k = 0
    /\ part_batches = <<>>
    /\ part_done = TRUE

PerfSpecInit == PerfInit /\ ResIdle /\ DemoInit /\ BulkIdle /\ PartIdle /\ BackendInit
ResSpecInit == ResInit /\ PerfIdle /\ DemoInit /\ BulkIdle /\ PartIdle /\ BackendInit
DemoSpecInit == DemoInit /\ PerfIdle /\ ResIdle /\ BulkIdle /\ PartIdle /\ BackendInit
\* one of the two batch schedulers runs
SchedSpecInit ==
    /\ \/ SchedPerfInit /\ BulkIdle
       \/ BulkInit /\ PerfIdle
    /\ ResIdle /\ DemoInit /\ PartIdle /\ BackendInit
PartSpecInit == PartInit /\ PerfIdle /\ ResIdle /\ DemoInit /\ BulkIdle
    /\ BackendInit
ConfigSpecInit == ConfigInit /\ ResIdle /\ DemoInit /\ BulkIdle /\ PartIdle /\ BackendInit

PerfSpec == PerfSpecInit /\ [][PerfNext]_vars
ResSpec == ResSpecInit /\ [][ResNext]_vars
DemoSpec == DemoSpecInit /\ [][DemoNext]_vars
SchedNext == PerfNext \/ BulkNext
SchedSpec == SchedSpecInit /\ [][SchedNext]_vars
PartSpec == PartSpecInit /\ [][PartNext]_vars
\* the first run of a suite, and the runs that follow it on the same tester
RerunSpecInit ==
    /\ \E n \in 1 .. MaxEvents, c \in 1 .. 2 : PerfStart(n, MaxBatch, c)
    /\ ResIdle /\ DemoInit /\ BulkIdle /\ PartIdle /\ BackendInit
RerunNext ==
    \/ PerfNext
    \/ \E n \in 0 .. MaxEvents, B \in {1, MaxBatch} : RunAgain(n, B)
RerunSpec == RerunSpecInit /\ [][RerunNext]_vars
BackendSpecInit ==
    BackendInit /\ PerfIdle /\ ResIdle /\ DemoInit /\ BulkIdle /\ PartIdle
BackendSpec == BackendSpecInit /\ [][BackendNext]_vars
\* two calls gathered on one client, each with retries to spend
PolicySpecInit ==
    /\ num_calls = 2
    /\ max_retries = MaxRetriesConcurrent + 1
    /\ stats = StatsInit
    /\ rpc = [c \in Calls |-> "idle"]
    /\ attempt = [c \in Calls |-> 0]
    /\ last_exception = [c \in Calls |-> "None"]
    /\ header = [c \in Calls |-> "none"]
    /\ sleep_ms = [c \in Calls |-> 0]
    /\ first_status = [c \in Calls |-> "none"]
    /\ own = [c \in Calls |-> OwnInit]
    /\ classified = [c \in Calls |-> 0]
    /\ ret = [c \in Calls |-> "none"]
    /\ PerfIdle /\ DemoInit /\ BulkIdle /\ PartIdle /\ BackendInit
\* the steps of the calls, with one representative of each kind of outcome
PolicyNext ==
    \E c \in Calls :
        \/ Call(c)
        \/ Status200(c)
        \/ JsonReturned(c)
        \/ BodyRaises(c, "ClientError", 0)
        \/ Status429(c, "2")
        \/ RateLimitSleepDone(c)
        \/ Status401(c)
        \/ \E st \in {"5xx", "4xx"} : StatusError(c, st)
        \/ ServerErrorRead(c, 0)
        \/ ClientErrorRead(c)
        \/ \E e \in {"TimeoutError", "Exception"} : RequestRaises(c, e, 0)
        \/ BackoffDone(c)
PolicySpec == PolicySpecInit /\ [][PolicyNext]_vars
ConfigNext == Construct \/ EnterRun \/ PerfNext
ConfigSpec == ConfigSpecInit /\ [][ConfigNext]_vars

\* asyncio runs every ready task, and every request is answered in the end
PerfFairSpec ==
    /\ PerfSpec
    /\ WF_vars(StartBatch)
    /\ WF_vars(GatherDone)
    /\ WF_vars(PauseDone)
    /\ WF_vars(RunReturn)
    /\ WF_vars(PrintReport)
    /\ \A t \in Events : WF_vars(TaskStep(t))
    /\ \A t \in Events : WF_vars(TaskCancelled(t))

\* =========================================================================
\* Properties of CalendarPerformanceTester
\* =========================================================================
\* the tasks run_performance_test was given
Submitted == 0 .. (event_count - 1)

\* requests issued by create_single_event and not yet answered
InFlight == {t \in Events : pc[t] = "post"}

RECURSIVE SumHeld(_)
SumHeld(S) == IF S = {} THEN 0
              ELSE LET t == CHOOSE x \in S : TRUE IN held[t] + SumHeld(S \ {t})

NoTaskRunning == \A t \in Events : pc[t] \notin LivePcs

\* C1: when run_performance_test returns, total_events equals
\* successful_events + failed_events.
C1_TotalIsSuccessPlusFailure ==
    run_pc = "returned" =>
        metrics.total_events = metrics.successful_events + metrics.failed_events

\* C2: every submitted item eventually has a terminal outcome and the run
\* itself ends (it returns with every item resolved, unless it is interrupted).
C2_RunTerminates ==
    <>(\/ run_pc = "cancelled"
       \/ run_pc = "returned" /\ \A t \in Submitted : result[t] # "none")

\* C3: a task suspended on the semaphore is eventually admitted (or the run is
\* interrupted): no waiter waits forever.
C3_WaiterEventuallyAdmitted ==
    \A t \in Events :
        (pc[t] = "waiting") ~> (pc[t] = "post" \/ run_pc = "cancelled")

\* C4: at every moment the number of requests in flight is at most
\* max_concurrent.
C4_InFlightAtMostMaxConcurrent == Cardinality(InFlight) <= max_concurrent

\* C4 witness: the limit is reached while another task is kept waiting.
C4_LimitReachedWithWaiter ==
    /\ Cardinality(InFlight) = max_concurrent
    /\ \E t \in Events : pc[t] = "waiting"

\* C6: one item of the bulk client is attempted at most max_retries + 1 times
\* (3 retries by default), also when every response is 429.
C6_AttemptsWithinRetryCeiling ==
    \A t \in Events : attempts[t] <= DefaultMaxRetries + 1

\* C9: every acquired slot is released exactly once on every exit path:
\* releases never exceed acquisitions, the slots not yet released are exactly
\* those held by frames of live tasks, a task that has left holds none, and
\* with no task running all max_concurrent slots are free.
C9_SlotsReleasedExactlyOnce ==
    /\ released <= acquired
    /\ acquired - released = SumHeld(Events)
    /\ sem_value = max_concurrent - (acquired - released)
    /\ \A t \in Events : pc[t] \notin LivePcs => held[t] = 0
    /\ NoTaskRunning => sem_value = max_concurrent

\* C9 witness: a run in which one task failed on an exception and another was
\* cancelled in the middle of a rate-limit retry, and no task is left.
C9_AllExitPathsTaken ==
    /\ NoTaskRunning
    /\ \E t \in Events : pc[t] = "cancelled" /\ attempts[t] >= 2
    /\ \E t \in Events : result[t] = "error"
    /\ released >= 3

\* C10: a task holds at most one slot at a time, and none while it waits out
\* a Retry-After delay.
C10_SlotHeldForOneAttemptOnly ==
    \A t \in Events :
        /\ held[t] <= 1
        /\ pc[t] = "sleep" => held[t] = 0

\* =========================================================================
\* Properties of ResilientCalendarClient
\* =========================================================================
Made == 1 .. num_calls

\* every attempt of call c so far was answered 429 with a Retry-After the
\* client could read
OnlyRateLimited(c) ==
    /\ own[c].rate_limits_hit = own[c].total_attempts
    /\ last_exception[c] = "None"

\* C5: an item answered 429 with Retry-After: R on every attempt is retried
\* exactly max_retries times (max_retries + 1 attempts), each retry starts
\* only after a sleep of at least R (here R = 2 s), and the item is then
\* recorded as failed exactly once, with no success recorded.
C5_AlwaysRateLimited ==
    /\ [](\A c \in Made :
            (rpc[c] = "done" /\ OnlyRateLimited(c)) =>
                /\ own[c].total_attempts = max_retries + 1
                /\ own[c].retries_performed = max_retries
                /\ own[c].failed_requests = 1
                /\ own[c].successful_requests = 0)
    /\ [][\A c \in Made :
            (/\ own[c].total_attempts > 0
             /\ own'[c].total_attempts > own[c].total_attempts
             /\ OnlyRateLimited(c)
             /\ header[c] = "2") =>
                (rpc[c] = "sleep429" /\ sleep_ms[c] >= 2 * 1000)]_vars

\* C5 witness: a call with two retries or more that was answered 429 every
\* time has returned.
C5_RateLimitedToTheEnd ==
    \E c \in Made :
        /\ rpc[c] = "done"
        /\ OnlyRateLimited(c)
        /\ max_retries >= 2
        /\ own[c].rate_limits_hit = max_retries + 1

\* statuses the spec classes as ClientError: every 4xx but 429
ClientErrorStatuses == {"401", "4xx"}

\* what "failed after exactly one attempt, no retry" means for call c
FailedAfterOneAttempt(c) ==
    /\ own[c].total_attempts = 1
    /\ own[c].retries_performed = 0
    /\ rpc[c] = "done" => (own[c].failed_requests = 1 /\ own[c].successful_requests = 0)

C8_OneOutcomePerCall ==
    /\ \A c \in Made :
           rpc[c] = "done" =>
               own[c].successful_requests + own[c].failed_requests = 1
    /\ (\A c \in Made : rpc[c] = "done") =>
           stats.successful_requests + stats.failed_requests = num_calls

\* ------------------------------------------------- latency samples (C13)
FailedItems == {t \in Events : result[t] \in {"failed", "error"}}
SucceededItems == {t \in Events : result[t] = "success"}

\* C13: the latency statistics are computed over successful attempts only:
\* when the run returns, response_times holds exactly one sample per
\* successful item and no sample of a 429, of another status or of an
\* exception.
C13_LatencyOverSuccessOnly ==
    run_pc = "returned" =>
        /\ response_times.s200 = Cardinality(SucceededItems)
        /\ response_times.s429 = 0
        /\ response_times.other = 0
        /\ response_times.exception = 0

\* ----------------------------------------------------- cancellation (C14)
\* C14: once the run is cancelled no attempt is started, every request in
\* flight is left to finish (it is not aborted), and finished items keep
\* their outcome.
C14_CancelLetsInFlightFinish ==
    [][run_pc = "cancelled" =>
          /\ attempts' = attempts
          /\ \A t \in Events : pc[t] = "post" => pc'[t] # "cancelled"
          /\ \A t \in Events : pc[t] = "done" => result'[t] = result[t]]_vars

\* ------------------------------------------------ failure isolation (C15)
\* C15: a failed item aborts neither its batch nor the run: when the run
\* returns every submitted item has been attempted and has an outcome, and
\* every failed item is counted in failed_events.
C15_ItemFailureDoesNotAbort ==
    /\ run_pc = "returned" =>
           \A t \in Submitted : /\ attempts[t] >= 1
                                /\ pc[t] = "done"
                                /\ result[t] # "none"
    /\ metrics.failed_events >= Cardinality(FailedItems)

\* the first item failed, and the item of the next batch was still created
C15_LaterBatchAfterFailure ==
    /\ run_pc = "returned"
    /\ batch_size = 1
    /\ result[0] \in {"failed", "error"}
    /\ result[1] = "success"
    /\ metrics.failed_events = 1

\* ------------------------------------------------ attempts per call (C17)
\* C17: a call of make_resilient_request makes at most max_retries + 1
\* attempts (4 with the default of 3) and then returns: its share of
\* total_attempts is at most max_retries + 1 and its share of
\* retries_performed at most max_retries.
C17_AttemptsPerCallBounded ==
    \A c \in Calls :
        /\ own[c].total_attempts <= max_retries + 1
        /\ own[c].retries_performed <= max_retries
        /\ max_retries = DefaultMaxRetries => own[c].total_attempts <= 4
        /\ rpc[c] \in {"sleep", "sleep401"} => own[c].total_attempts <= max_retries
        /\ rpc[c] = "done" => ret[c] # "none"

\* a call with the default max_retries used all four attempts and returned
C17_AllAttemptsUsed ==
    \E c \in Made : /\ max_retries = DefaultMaxRetries
                     /\ rpc[c] = "done"
                     /\ own[c].total_attempts = 4
                     /\ own[c].retries_performed = 3

\* ------------------------------------------- one outcome per attempt (C18)
\* C18: no single attempt increments more than one of successful_requests,
\* rate_limits_hit, network_errors and timeout_errors.
C18_OneOutcomePerAttempt == \A c \in Calls : classified[c] <= 1

\* ------------------------------------- totals change on the last attempt (C19)
\* C19: an attempt that is followed by a retry changes neither
\* successful_requests nor failed_requests: a call that waits to retry, or
\* has started a later attempt that is not answered yet, has added nothing
\* to either total.
C19_TotalsOnlyOnTerminalAttempt ==
    \A c \in Calls :
        (rpc[c] \in {"sleep", "sleep401"} \/ (rpc[c] = "request" /\ attempt[c] > 0))
            => own[c].successful_requests = 0 /\ own[c].failed_requests = 0

\* ------------------------------------ 429 without a usable Retry-After (C16)
\* C16: a 429 whose Retry-After header is absent or is not an integer makes
\* the client wait the default of one second as a rate-limited attempt that
\* is retried under the policy; it is not given up on the spot.
C16_DefaultWaitWhenHeaderUnusable ==
    \A c \in Calls :
        header[c] \in {"absent", "abc"}
            => rpc[c] = "sleep429" /\ sleep_ms[c] = 1000

\* ------------------------------------------ requests never raise (C20)
\* C20: the request operations never raise for an expected failure mode:
\* whatever the status, the Retry-After header, a timeout or a connection
\* failure, the caller gets a result value, not an exception.
C20_ExpectedFailuresNeverRaise ==
    \A c \in DemoCalls : dret[c] \notin {"ValueError", "ClientError", "TimeoutError"}

\* ------------------------------------------------ sequential batches (C11)
\* the batch an item belongs to
BatchOf(t, B) == t \div B

\* C11: batches run strictly one after the other, in run_performance_test
\* and in demo_bulk_event_creation: an item has started its first attempt
\* only if every item of every earlier batch has its terminal outcome.
C11_BatchesStrictlySequential ==
    /\ \A t, u \in Events :
           attempts[t] >= 1 /\ BatchOf(u, batch_size) < BatchOf(t, batch_size)
               => pc[u] = "done" /\ result[u] # "none"
    /\ \A t, u \in BulkEvents :
           /\ bulk_pc[t] \in {"request", "done"}
           /\ BatchOf(u, DemoBatchSize) < BatchOf(t, DemoBatchSize)
           => bulk_pc[u] = "done"

\* the item of the second batch has its request in flight
C11_SecondBatchStarted ==
    /\ event_count = SchedEvents
    /\ batch_num = 1
    /\ pc[MaxBatch] = "post"
    /\ attempts[MaxBatch] = 1
    /\ \A u \in 0 .. (MaxBatch - 1) : pc[u] = "done"

\* --------------------------------------------------- batch partition (C12)
\* ceil(n / B), from its definition
Ceil(n, B) == CHOOSE k \in 0 .. n : k * B >= n /\ (k > 0 => (k - 1) * B < n)

RECURSIVE Flatten(_)
Flatten(ss) == IF ss = <<>> THEN <<>> ELSE Head(ss) \o Flatten(Tail(ss))

\* C12: n items and batch size B >= 1 give exactly ceil(n / B) batches, the
\* contiguous slices of the list in order: every batch but the last has B
\* items, the last has n - B * (ceil(n / B) - 1), and every item is in
\* exactly one batch.
C12_BatchesPartitionTheList ==
    /\ Flatten(part_batches) = [i \in 1 .. Len(Flatten(part_batches)) |-> i - 1]
    /\ \A k \in 1 .. Len(part_batches) - 1 : Len(part_batches[k]) = part_B
    /\ part_done =>
           /\ Len(part_batches) = Ceil(part_n, part_B)
           /\ Len(Flatten(part_batches)) = part_n
           /\ part_n > 0 =>
                  Len(part_batches[Len(part_batches)])
                      = part_n - part_B * (Ceil(part_n, part_B) - 1)

\* twelve items in batches of five: three batches of 5, 5 and 2
C12_TwelveByFive ==
    /\ part_done
    /\ part_n = 12
    /\ part_B = 5
    /\ Len(part_batches) = 3
    /\ Len(part_batches[3]) = 2

\* ------------------------------------------------- no lost update (C21)
\* C21: no increment of successful_events, failed_events or
\* rate_limited_requests is lost, however the tasks interleave at their
\* awaits: every counter equals the number of increments the tasks did.
C21_NoLostUpdate ==
    \A k \in DOMAIN NoIncrements : metrics[k] = counted[k]

\* two tasks of one batch are both between their increment and their return
C21_TwoTasksCountedConcurrently ==
    /\ pc[0] = "json"
    /\ pc[1] = "json"
    /\ counted.successful_events = 2
    /\ metrics.successful_events = 2

\* ------------------------------------------------ summary always (C23)
\* C23: a run always ends with a summary: whatever the event count and the
\* outcomes, print_performance_report does not raise.
C23_ReportNeverRaises == run_pc # "report_raised"

\* ------------------------------------------------ inter-batch pause (C30)
\* the pauses a batch loop has begun when it stands at `at` with loop
\* variable k, for n items in batches of B: one between every two
\* consecutive batches, none before the first and none after the last
PausesInPlace(at, k, n, B, p) ==
    /\ at = "pause" => p = k + 1 /\ k + 1 < Ceil(n, B)
    /\ at \in {"loop", "gather"} => p = Min(k, Max(Ceil(n, B) - 1, 0))
    /\ at \in {"returned", "reported", "report_raised"} /\ n >= 1
           => p = Ceil(n, B) - 1

\* C30: both schedulers sleep 0.1 s between every two consecutive batches
\* and nowhere else: ceil(n / B) - 1 pauses for a run of n >= 1 items.
C30_PauseBetweenBatchesOnly ==
    /\ PausesInPlace(run_pc, batch_num, event_count, batch_size, pauses)
    /\ PausesInPlace(bulk_run_pc, bulk_batch_num, bulk_event_count,
                     DemoBatchSize, bulk_pauses)

\* a run of three single-item batches returned after two pauses
C30_ThreeBatchesTwoPauses ==
    /\ run_pc = "returned"
    /\ batch_size = 1
    /\ event_count = 3
    /\ pauses = 2

\* -------------------------------------------- malformed configuration (C22)
Malformed == batch_size <= 0 \/ max_concurrent <= 0

\* C22: a run with batch_size <= 0 or max_concurrent <= 0 is aborted with an
\* error: it never completes normally with items that were neither attempted
\* nor counted.
C22_MalformedConfigAborts ==
    Malformed /\ run_pc \in {"returned", "reported", "report_raised"}
        => \A t \in Submitted : attempts[t] >= 1

\* ------------------------------------------- success ends the call (C24)
\* C24: once an attempt of a call was counted in successful_requests, no
\* further attempt is made and the call returns the success result.
C24_SuccessEndsTheCall ==
    /\ \A c \in Calls :
           own[c].successful_requests >= 1 =>
               /\ rpc[c] \in {"json", "done"}
               /\ rpc[c] = "done" => ret[c] = "payload"
    /\ \A c \in DemoCalls :
           dlast[c] = "200" =>
               /\ dpc[c] \in {"json", "done"}
               /\ dpc[c] = "done" => dret[c] \in DemoPayloads

\* ------------------------------------------------ backoff length (C25)
\* C25: the wait before the retry that follows attempt k ended by a server
\* error, a network error or a timeout is 2^k seconds plus a jitter in
\* [0, 1): at least 2^k and less than 2^k + 1 seconds, for every
\* k < max_retries.
C25_BackoffIsExponential ==
    \A c \in Calls :
        rpc[c] = "sleep" =>
            /\ attempt[c] < max_retries
            /\ sleep_ms[c] >= 1000 * Pow2(attempt[c])
            /\ sleep_ms[c] < 1000 * Pow2(attempt[c]) + 1000

\* the wait after the third attempt, with the largest jitter
C25_ThirdBackoff ==
    \E c \in Made : /\ rpc[c] = "sleep"
                     /\ attempt[c] = 2
                     /\ sleep_ms[c] = 4999

\* --------------------------------------- no wait after the last attempt (C28)
\* C28: on the last allowed attempt the decision is to give up whatever the
\* outcome: no Retry-After wait and no backoff wait follows the attempt
\* numbered max_retries.
C28_NoWaitAfterLastAttempt ==
    \A c \in Calls :
        rpc[c] \in {"sleep", "sleep401", "sleep429"} => attempt[c] < max_retries

\* ------------------------------------------- attempts in the message (C29)
\* C29: a call that returns "Request failed after {max_retries + 1} attempts"
\* made exactly max_retries + 1 attempts, and a make_request that returns
\* "Request failed after 3 attempts" made exactly 3.
C29_MessageCountsAttempts ==
    /\ \A c \in Calls :
           ret[c] = "error" => own[c].total_attempts = max_retries + 1
    /\ \A c \in DemoCalls :
           dret[c] = "error" => dattempt[c] + 1 = DemoAttempts

\* --------------------------------------- backoff before every retry (C26)
\* C26: in make_request every retry that follows a 5xx, a network error or
\* a timeout comes after a backoff sleep of at least 2^attempt seconds: no
\* such retry is sent at once.
C26_RetryOnlyAfterBackoff ==
    [][\A c \in DemoCalls :
          (dattempt'[c] > dattempt[c] /\ dlast[c] \in {"5xx", "exception", "200"})
              => dpc[c] = "backoff" /\ dsleep[c] >= Pow2(dattempt[c])]_vars

\* ---------------------------------------- three retries, none on 4xx (C27)
\* C27: make_request gives an item the first attempt and 3 retries, so a
\* call recorded as failed was attempted 4 times, unless it ended on a 4xx
\* other than 429, which is recorded as failed at once and never retried.
C27_ThreeRetriesNoneOnClientError ==
    \A c \in DemoCalls :
        /\ (dret[c] = "error" /\ dlast[c] # "4xx")
               => dattempt[c] + 1 = DefaultMaxRetries + 1
        /\ (dlast[c] = "4xx" /\ dpc[c] # "text4xx")
               => dpc[c] = "done" /\ dret[c] = "error"

\* ---------------------------------------- attempts accounted for (C33)
\* calls of make_resilient_request that were made and have not returned
ResInFlight == {c \in Calls : rpc[c] \notin {"idle", "done"}}

\* attempts not yet recorded as a retry, a success or a failure
UnsettledAttempts ==
    stats.total_attempts - stats.retries_performed
        - stats.successful_requests - stats.failed_requests

\* C33: in ResilientCalendarClient the attempts not yet recorded as a
\* retry, a success or a failure are never fewer than 0 nor more than the
\* calls in flight, so with no call in flight total_attempts equals
\* retries_performed + successful_requests + failed_requests.
C33_AttemptsAccountedFor ==
    /\ UnsettledAttempts >= 0
    /\ UnsettledAttempts <= Cardinality(ResInFlight)

\* ------------------------------------------ demo client counters (C34)
\* make_request calls that were made and have not returned
DemoInFlight == {c \in DemoCalls : dpc[c] \notin {"idle", "done"}}

\* C34: in CalendarDemoClient, with no request in flight total_requests
\* equals successful_requests + failed_requests, and events_created never
\* exceeds successful_requests.
C34_DemoRequestsAccountedFor ==
    /\ DemoInFlight = {} =>
           demo_stats.total_requests =
               demo_stats.successful_requests + demo_stats.failed_requests
    /\ demo_stats.events_created <= demo_stats.successful_requests

\* ------------------------------------------- rate-limited count (C35)
\* C35: the rate-limited counter changes exactly when a 429 response is
\* received, by 1, and the step that receives the 429 changes neither the
\* success count nor the failure count (bulk client and resilient client).
C35_RateLimitedCountsOnly429 ==
    [][/\ (metrics.rate_limited_requests' # metrics.rate_limited_requests
            \/ response_times.s429' # response_times.s429) =>
               /\ metrics.rate_limited_requests' = metrics.rate_limited_requests + 1
               /\ response_times.s429' = response_times.s429 + 1
               /\ metrics.successful_events' = metrics.successful_events
               /\ metrics.failed_events' = metrics.failed_events
       /\ stats.rate_limits_hit' # stats.rate_limits_hit =>
               /\ stats.rate_limits_hit' = stats.rate_limits_hit + 1
               /\ \E c \in Calls : rpc[c] = "request" /\ header'[c] # "none"
               /\ stats.successful_requests' = stats.successful_requests
               /\ stats.failed_requests' = stats.failed_requests]_vars

\* --------------------------------------- latency covers the call only (C32)
\* C32: a latency sample covers the network call only: the task that
\* appends a sample has neither queued for a limiter slot nor slept on a
\* Retry-After since the start_time of the sample was taken.
C32_LatencyCoversNetworkCallOnly ==
    [][\A t \in Events :
          (pc'[t] # pc[t] /\ response_times' # response_times)
              => clock[t] = "network"]_vars

\* the retry that followed a Retry-After sleep has recorded its own sample
C32_SampleAfterRetryAfterSleep ==
    \E t \in Events :
        /\ attempts[t] = 2
        /\ pc[t] = "json"
        /\ response_times.s429 = 1
        /\ response_times.s200 = 1

\* ------------------------------------------- successive runs (C36)
\* C36: successive runs on one tester are independent: when a run returns
\* no task is still running, total_events is that run's event count and
\* every counter holds the increments of that run's tasks only.
C36_RunsAreIndependent ==
    run_pc \in {"returned", "reported", "report_raised"} =>
        /\ NoTaskRunning
        /\ metrics.total_events = event_count
        /\ \A k \in DOMAIN NoIncrements : metrics[k] = counted[k]

\* a second run on the tester has returned with a success of its own
C36_SecondRunReturned ==
    /\ runs = 2
    /\ run_pc = "returned"
    /\ event_count = 1
    /\ metrics.successful_events = 1

\* ------------------------------------------- backend counters (C37)
\* requests the backend is handling
BackendInProgress == {h \in Posts : bpc[h] \notin {"idle", "done"}}

\* C37: in the mock backend, whenever no request is being handled,
\* total_requests equals successful_requests + failed_requests and
\* events_created does not exceed successful_requests.
C37_BackendRequestsAccountedFor ==
    BackendInProgress = {} =>
        /\ backend_stats.total_requests =
               backend_stats.successful_requests + backend_stats.failed_requests
        /\ backend_stats.events_created <= backend_stats.successful_requests

\* ------------------------------------------- distinct event ids (C38)
\* C38: two POST /v1/calendar/events requests that both succeed never
\* return the same event id.
C38_EventIdsDistinct ==
    \A g, h \in Posts :
        (g # h /\ bstatus[g] = "200" /\ bstatus[h] = "200") => bid[g] # bid[h]

\* ------------------------------------- retry decisions are per item (C31)
\* what a call of make_resilient_request holds of its own
ResLocal(c) ==
    <<rpc[c], attempt[c], ret[c], sleep_ms[c], last_exception[c], header[c],
      own[c]>>

====
